---- MODULE Spec2Model ----
(***************************************************************************)
(* Content Decay Auditor (src/app.py): a Streamlit script.  Every user     *)
(* interaction reruns main() from the top against st.session_state, which  *)
(* persists between runs.  One action of this module is one whole run of   *)
(* the script (or one change of the environment between two runs).         *)
(*                                                                         *)
(* Representation                                                          *)
(*   None / Some(x)   Python's None, and a value that is not None          *)
(*   a DataFrame      the sequence of its rows; pd.DataFrame() (no rows,   *)
(*                    no columns) is the empty sequence                    *)
(*   a date           its proleptic ordinal (date.toordinal()), so that    *)
(*                    "- timedelta(days=n)" is "- n"                       *)
(*   a percentage     in hundredths of a percent: Series.round(2) keeps    *)
(*                    two decimals, so -66.67 is the integer -6667         *)
(*   a double         [m, e]: 53 bits m, the first one 1, and the exponent *)
(*                    e of the last bit; used where the rounding of the    *)
(*                    double arithmetic decides the result                 *)
(* The columns impressions and ctr are carried through the merge by the    *)
(* code but never read by the filter or the sort; they are left out.       *)
(***************************************************************************)
EXTENDS Integers, Sequences, FiniteSets, TLC

VARIABLES
    credentials,     \* st.session_state.credentials
    authenticated,   \* st.session_state.authenticated
    sites,           \* st.session_state.sites
    oauth_flow,      \* 'oauth_flow' (and 'oauth_state') in st.session_state
    decay_df,        \* st.session_state.decay_df (None: key not set)
    merged_df,       \* st.session_state.merged_df (None: key not set)
    token_json,      \* the file token.json (None: it does not exist)
    client_secrets,  \* os.path.exists(CLIENT_SECRETS_FILE)
    gsc_sites,       \* Search Console: the account's siteEntry list
    gsc_current,     \* Search Console: page rows of the current window
    gsc_previous,    \* Search Console: page rows of the previous window
    today,           \* datetime.now().date()
    rerun,           \* st.rerun() was called: the next run has no widget input
    rendered,        \* widgets the last run put on the page
    current_df,      \* main's local current_df in the last run
    previous_df,     \* main's local previous_df in the last run
    date_ranges,     \* main's local date_ranges in the last run
    run              \* what the last run did (entry state, calls, outcome)

vars == <<credentials, authenticated, sites, oauth_flow, decay_df, merged_df,
          token_json, client_secrets, gsc_sites, gsc_current, gsc_previous,
          today, rerun, rendered, current_df, previous_df, date_ranges, run>>

session == <<credentials, authenticated, sites, oauth_flow, decay_df, merged_df>>
environment == <<client_secrets, gsc_sites, gsc_current, gsc_previous, today>>

None == <<>>
Some(x) == <<x>>
Range(s) == {s[i] : i \in 1..Len(s)}

(***************************************************************************)
(* Bounds of the model.                                                    *)
(***************************************************************************)
ClickUnit == 20
MaxClickSteps == 3
MaxPosition == 1
FirstDay == 739000
DaySpan == 120

\* The pages of the site, in lexicographic order.
Urls == <<"/a", "/b">>
UrlSet == Range(Urls)
ClickValues == {ClickUnit * k : k \in 0..MaxClickSteps}
Positions == 1..MaxPosition
\* A row of the API's response: {'keys': [page], 'clicks': .., 'position': ..}.
Row == [keys : {<<u>> : u \in UrlSet}, clicks : ClickValues, position : Positions]
\* response['rows'] for one window: rows of distinct pages, in the order the
\* API lists them.  No rows stands for a response without 'rows' as well.
Responses ==
    {rows \in UNION {[1..n -> Row] : n \in 0..Len(Urls)} :
        \A i, j \in 1..Len(rows) : i # j => rows[i].keys # rows[j].keys}
NoRows == <<>>

\* Two windows of one page whose change in percent is halfway between two
\* hundredths: -58.125 and -19.995.
HalfwayPairs ==
    {<< <<[keys |-> <<"/a">>, clicks |-> 67, position |-> 1]>>,
        <<[keys |-> <<"/a">>, clicks |-> 160, position |-> 1]>> >>,
     << <<[keys |-> <<"/a">>, clicks |-> 16001, position |-> 1]>>,
        <<[keys |-> <<"/a">>, clicks |-> 20000, position |-> 1]>> >>}


(***************************************************************************)
(* fetch_search_analytics: the rows of the response as a DataFrame, in the *)
(* order of the response; pd.DataFrame() when the response has no rows or  *)
(* the request raised HttpError.                                           *)
(***************************************************************************)
EmptyDataFrame == <<>>

DataFrame(rows) ==
    [i \in 1..Len(rows) |->
        [url |-> rows[i].keys[1], clicks |-> rows[i].clicks,
         position |-> rows[i].position]]

fetch_search_analytics(response, http_error) ==
    IF http_error THEN EmptyDataFrame
    ELSE IF Len(response) = 0 THEN EmptyDataFrame
    ELSE DataFrame(response)

\* DataFrame.empty
empty(df) == Len(df) = 0

\* 'url' in df.columns: pd.DataFrame() has no columns at all.
has_url_column_always(df) == TRUE
has_url_column(df) == Len(df) > 0

\* main's test before the merge (line 240).
no_data_inverted(cur, prev) == ~empty(cur) /\ ~empty(prev)
no_data(cur, prev) == empty(cur) /\ empty(prev)

urls_of(df) == {df[i].url : i \in 1..Len(df)}
row_of(df, u) == CHOOSE r \in Range(df) : r.url = u

(***************************************************************************)
(* Double arithmetic.  bits are sequences of 0 and 1, the first bit the    *)
(* most significant; a double is m * 2^e with m of 53 bits.                *)
(***************************************************************************)
\* The number of bits of n, 0 <= n < 2^31.
bit_length(n) == Cardinality({k \in 0..30 : n >= 2^k})

\* The last w bits of n.
bits_w(n, w) == [i \in 1..w |-> (n \div 2^(w - i)) % 2]
bits_of(n) == bits_w(n, bit_length(n))

RECURSIVE to_int(_)
to_int(bits) ==
    IF Len(bits) = 0 THEN 0
    ELSE IF Len(bits) = 1 THEN bits[1]
    ELSE LET h == Len(bits) \div 2
         IN  to_int(SubSeq(bits, 1, h)) * 2^(Len(bits) - h)
                + to_int(SubSeq(bits, h + 1, Len(bits)))

zeros(n) == [i \in 1..n |-> 0]
any_bit(bits) == \E i \in 1..Len(bits) : bits[i] = 1

\* bits + 1 (one bit longer when every bit is 1).
incr(bits) ==
    LET Z == {i \in 1..Len(bits) : bits[i] = 0}
    IN  IF Z = {} THEN <<1>> \o zeros(Len(bits))
        ELSE LET k == CHOOSE i \in Z : \A j \in Z : j <= i
             IN  [i \in 1..Len(bits) |->
                    IF i < k THEN bits[i] ELSE IF i = k THEN 1 ELSE 0]

\* The double nearest to bits * 2^e (plus, with sticky, something below its
\* last bit): round to nearest, ties to even.
round53(bits, e, sticky) ==
    IF Len(bits) <= 53
    THEN [m |-> bits \o zeros(53 - Len(bits)), e |-> e - (53 - Len(bits))]
    ELSE LET k == Len(bits) - 53
             head == SubSeq(bits, 1, 53)
             guard == bits[54]
             st == sticky \/ any_bit(SubSeq(bits, 55, Len(bits)))
             up == guard = 1 /\ (st \/ head[53] = 1)
             h == IF up THEN incr(head) ELSE head
         IN  IF Len(h) = 54
             THEN [m |-> SubSeq(h, 1, 53), e |-> e + k + 1]
             ELSE [m |-> h, e |-> e + k]

\* 2^k mod b for 0 <= k < 105 and 0 < b <= 2^15.
pow2mod(k, b) ==
    LET t == k \div 15
        p15 == 2^15 % b
        p30 == (p15 * p15) % b
        p60 == (p30 * p30) % b
        f1 == IF t % 2 = 1 THEN p15 ELSE 1
        f2 == IF (t \div 2) % 2 = 1 THEN p30 ELSE 1
        f4 == IF (t \div 4) % 2 = 1 THEN p60 ELSE 1
    IN  (((((f1 * f2) % b) * f4) % b) * (2^(k % 15) % b)) % b

\* What is left of r / b, r < b, after k bits of long division, and bit j.
frac_rem(r, k, b) == (r * pow2mod(k, b)) % b
frac_bit(r, j, b) == (2 * frac_rem(r, j - 1, b)) \div b

\* The double a / b for integers a > 0 and 0 < b <= 2^15: long division to
\* 54 bits from the first 1 on, then rounded.
fdiv(a, b) ==
    LET q == a \div b
        r == a % b
        qb == bits_of(q)
        z == IF q > 0 THEN 0 ELSE Cardinality({j \in 1..16 : r * 2^j < b})
        last == 54 - Len(qb) + z
    IN  round53([i \in 1..54 |->
                    IF i <= Len(qb) THEN qb[i] ELSE frac_bit(r, i - Len(qb) + z, b)],
                0 - last, frac_rem(r, last, b) # 0)

\* The double x * 100, the mantissa multiplied in three parts.
mul100(x) ==
    LET p0 == 100 * to_int(SubSeq(x.m, 36, 53))
        p1 == 100 * to_int(SubSeq(x.m, 18, 35)) + p0 \div 2^18
        p2 == 100 * to_int(SubSeq(x.m, 1, 17)) + p1 \div 2^18
    IN  round53(bits_of(p2) \o bits_w(p1 % 2^18, 18) \o bits_w(p0 % 2^18, 18),
                x.e, FALSE)

\* numpy's rint of a double below 2^31: the nearest integer, ties to even.
rint(x) ==
    LET k == 0 - x.e
    IN  IF k > 53 THEN 0
        ELSE LET ip == to_int(SubSeq(x.m, 1, 53 - k))
                 guard == x.m[53 - k + 1]
                 st == any_bit(SubSeq(x.m, 53 - k + 2, 53))
             IN  IF guard = 1 /\ (st \/ ip % 2 = 1) THEN ip + 1 ELSE ip

\* rint((n / d * 100) * 100) in doubles, for integers n and 0 < d <= 2^15.
rint_double(n, d) ==
    IF n = 0 THEN 0
    ELSE IF n < 0 THEN 0 - rint(mul100(mul100(fdiv(0 - n, d))))
    ELSE rint(mul100(mul100(fdiv(n, d))))

\* The integer nearest to n / d, d > 0, ties to even.
round_half_even(n, d) ==
    LET q == n \div d
        r == n - q * d
    IN  IF 2 * r < d THEN q
        ELSE IF 2 * r > d THEN q + 1
        ELSE IF q % 2 = 0 THEN q ELSE q + 1

(***************************************************************************)
(* (n / d * 100).round(2), in hundredths, for integers n and d > 0.        *)
(* Series.round(2) is rint(x * 100) / 100 on the double x = n / d * 100.   *)
(* When n / d * 100 is not halfway between two hundredths it lies at least *)
(* 1/(2d) hundredths from the halfway point, far more than the error of    *)
(* the three double operations, and the result is the nearest hundredth.   *)
(* When it is halfway, n / d is k / 20000 for an odd k, the double n / d   *)
(* is the double k / 20000, and the double arithmetic decides.             *)
(***************************************************************************)
round_2(n, d) ==
    LET k == (2 * n * 10000) \div d
    IN  IF (2 * n * 10000) % d = 0 /\ k % 2 = 1
        THEN rint_double(k, 20000)
        ELSE round_half_even(n * 10000, d)

\* Series.replace(0, 1)
replace_0_1(x) == IF x = 0 THEN 1 ELSE x

\* ((current - previous) / previous.replace(0, 1) * 100).round(2)
clicks_change_pct_zero_policy(cur, prev) ==
    IF prev = 0 THEN 0 ELSE round_2(cur - prev, prev)
clicks_change_pct(cur, prev) ==
    round_2(cur - prev, replace_0_1(prev))

(***************************************************************************)
(* pd.merge(current_df, previous_df, on='url', how='outer',                *)
(* suffixes=('_current', '_previous')).fillna(0), then the change columns. *)
(* An outer merge orders the rows by key (pandas: "outer: use union of     *)
(* keys from both frames, sort keys lexicographically").  It raises        *)
(* KeyError('url') when a side has no url column (see has_url_column);     *)
(* merge is the result when it does not raise.                             *)
(***************************************************************************)
merge(cur, prev) ==
    LET keys == SelectSeq(Urls, LAMBDA u : u \in urls_of(cur) \cup urls_of(prev))
        c(u) == IF u \in urls_of(cur) THEN row_of(cur, u).clicks ELSE 0
        p(u) == IF u \in urls_of(prev) THEN row_of(prev, u).clicks ELSE 0
        pc(u) == IF u \in urls_of(cur) THEN row_of(cur, u).position ELSE 0
        pp(u) == IF u \in urls_of(prev) THEN row_of(prev, u).position ELSE 0
    IN  [i \in 1..Len(keys) |->
            [url |-> keys[i],
             clicks_current |-> c(keys[i]),
             position_current |-> pc(keys[i]),
             clicks_previous |-> p(keys[i]),
             position_previous |-> pp(keys[i]),
             clicks_change |-> c(keys[i]) - p(keys[i]),
             clicks_change_pct |-> clicks_change_pct(c(keys[i]), p(keys[i]))]]

\* decay_threshold = -20 (percent), in hundredths.
decay_threshold == -20

\* The row mask of the filter (lines 268-271).
is_decay_or(r) ==
    (r.clicks_change_pct <= decay_threshold * 100) \/ (r.clicks_previous > 0)
is_decay(r) ==
    (r.clicks_change_pct <= decay_threshold * 100) /\ (r.clicks_previous > 0)

decay_filter(df) == SelectSeq(df, is_decay)

(***************************************************************************)
(* DataFrame.sort_values('clicks_change_pct'): ascending.  The default     *)
(* kind is quicksort, which promises no order among equal keys, so every   *)
(* ascending arrangement of the rows is a possible result.                 *)
(***************************************************************************)
Arrangements(df) ==
    {[i \in 1..Len(df) |-> df[f[i]]] :
        f \in {g \in [1..Len(df) -> 1..Len(df)] :
                 \A i, j \in 1..Len(df) : i # j => g[i] # g[j]}}

is_ascending(df) ==
    \A i \in 1..(Len(df) - 1) : df[i].clicks_change_pct <= df[i + 1].clicks_change_pct
is_descending(df) ==
    \A i \in 1..(Len(df) - 1) : df[i].clicks_change_pct >= df[i + 1].clicks_change_pct

sort_values_descending(df) == {s \in Arrangements(df) : is_descending(s)}
sort_values(df) == {s \in Arrangements(df) : is_ascending(s)}

(***************************************************************************)
(* px.scatter(decay_df.head(50), ..., size='clicks_change_pct') (line      *)
(* 359): plotly accepts marker sizes in [0, inf] only and raises           *)
(* ValueError for a negative one.                                          *)
(***************************************************************************)
scatter_raises(df) == \E i \in 1..Len(df) : i <= 50 /\ df[i].clicks_change_pct < 0

(***************************************************************************)
(* calculate_date_ranges                                                   *)
(***************************************************************************)
calculate_date_ranges_90(day) ==
    LET current_end == day - 1
        current_start == current_end - 90
    IN  [current |-> [start |-> current_start, end |-> current_end],
         previous |-> [start |-> current_start - 365, end |-> current_end - 365]]
calculate_date_ranges(day) ==
    LET current_end == day - 1
        current_start == current_end - 89
        previous_end == current_end - 365
        previous_start == current_start - 365
    IN  [current |-> [start |-> current_start, end |-> current_end],
         previous |-> [start |-> previous_start, end |-> previous_end]]


(***************************************************************************)
(* Credentials.  A credential is [expired, refresh_token]; it is valid     *)
(* when it has not expired.  token.json holds a credential, or text that   *)
(* Credentials.from_authorized_user_file cannot parse.                     *)
(***************************************************************************)
Credential == [expired : BOOLEAN, refresh_token : BOOLEAN]
TokenFile == [parsable : BOOLEAN, expired : BOOLEAN, refresh_token : BOOLEAN]

to_json(c) == [parsable |-> TRUE, expired |-> c.expired, refresh_token |-> c.refresh_token]
from_authorized_user_file(f) == [expired |-> f.expired, refresh_token |-> f.refresh_token]

\* load_credentials(): the session's credential, else the token file's, else None.
load_credentials ==
    IF credentials # None THEN credentials
    ELSE IF token_json # None
         THEN IF token_json[1].parsable
              THEN Some(from_authorized_user_file(token_json[1]))
              ELSE None
         ELSE None

\* load_credentials() reported "Error loading credentials".
load_credentials_error ==
    credentials = None /\ token_json # None /\ ~token_json[1].parsable

\* main's "if not credentials" (line 192).
credentials_missing_never(c) == FALSE
credentials_missing(c) == c = None

\* save_credentials(c), c not None: the session and token.json both get it.
save_credentials(c) ==
    /\ credentials' = Some(c)
    /\ token_json' = Some(to_json(c))

(***************************************************************************)
(* get_sites: the siteUrl of each entry the user owns or fully uses; the   *)
(* empty list on HttpError.                                                *)
(***************************************************************************)
SiteEntries ==
    {<<>>,
     <<[siteUrl |-> "sc-domain:a.com", permissionLevel |-> "siteOwner"]>>,
     <<[siteUrl |-> "sc-domain:a.com", permissionLevel |-> "siteRestrictedUser"]>>,
     <<[siteUrl |-> "sc-domain:a.com", permissionLevel |-> "siteOwner"],
       [siteUrl |-> "https://b.com/", permissionLevel |-> "siteFullUser"]>>}

get_sites(entries, http_error) ==
    IF http_error THEN <<>>
    ELSE LET kept == SelectSeq(entries, LAMBDA e :
                        e.permissionLevel = "siteOwner" \/ e.permissionLevel = "siteFullUser")
         IN  [i \in 1..Len(kept) |-> kept[i].siteUrl]

\* main's "if not st.session_state.sites" before the fetch (line 200).
sites_fetch_always(s) == TRUE
sites_fetch_needed(s) == s = <<>>

NoRun == [entry_authenticated |-> FALSE, credentials_loaded |-> FALSE,
          click |-> "none", api_calls |-> {}, http_errors |-> {},
          alerts |-> {}, outcome |-> "none", raised |-> "none"]

(***************************************************************************)
(* A run of the script entered with authenticated False: main calls        *)
(* authenticate() and returns (lines 186-188, 54-117).                     *)
(*   redirect     the text pasted into "Paste the redirect URL here"       *)
(*   refresh_ok   credentials.refresh(Request()) does not raise            *)
(*   token_ok     flow.fetch_token(...) does not raise                     *)
(*   new_refresh  the credential it yields carries a refresh token         *)
(***************************************************************************)
RunLogin(redirect, refresh_ok, token_ok, new_refresh) ==
    /\ ~authenticated
    /\ rerun => redirect = ""
    /\ redirect # "" => "redirect_input" \in rendered
    /\ LET loaded == load_credentials
           usable == loaded # None /\ ~loaded[1].expired
           refreshable == loaded # None /\ loaded[1].expired /\ loaded[1].refresh_token
           path == IF ~client_secrets THEN "no_client_secrets"
                   ELSE IF usable THEN "valid"
                   ELSE IF refreshable /\ refresh_ok THEN "refreshed"
                   ELSE IF redirect # "" /\ token_ok THEN "oauth_success"
                   ELSE "login_page"
           flow == path \in {"oauth_success", "login_page"}
       IN  /\ authenticated' = (path \in {"valid", "refreshed", "oauth_success"})
           /\ IF path = "refreshed"
              THEN save_credentials([expired |-> FALSE, refresh_token |-> TRUE])
              ELSE IF path = "oauth_success"
              THEN save_credentials([expired |-> FALSE, refresh_token |-> new_refresh])
              ELSE UNCHANGED <<credentials, token_json>>
           /\ oauth_flow' = (oauth_flow \/ flow)
           /\ rerun' = (path = "oauth_success")
           /\ rendered' = IF flow THEN {"redirect_input"} ELSE {}
           /\ run' = [entry_authenticated |-> FALSE,
                      credentials_loaded |-> client_secrets /\ loaded # None,
                      click |-> IF redirect = "" THEN "none" ELSE "redirect",
                      api_calls |-> {},
                      http_errors |-> {},
                      alerts |->
                          (IF ~client_secrets THEN {"error: client_secrets.json missing"} ELSE {})
                          \cup (IF client_secrets /\ load_credentials_error
                                THEN {"error: loading credentials"} ELSE {})
                          \cup (IF flow /\ refreshable THEN {"error: refreshing credentials"} ELSE {})
                          \cup (IF flow THEN {"info: visit the authorization URL"} ELSE {})
                          \cup (IF path = "oauth_success" THEN {"success: authentication"} ELSE {})
                          \cup (IF path = "login_page" /\ redirect # ""
                                THEN {"error: authentication failed"} ELSE {}),
                      outcome |-> path,
                      raised |-> "none"]
    /\ current_df' = EmptyDataFrame
    /\ previous_df' = EmptyDataFrame
    /\ date_ranges' = None
    /\ UNCHANGED <<sites, decay_df, merged_df, environment>>


(***************************************************************************)
(* A run of the script entered with authenticated True (lines 190-392).    *)
(*   click          the button pressed on the page of the last run         *)
(*   sites_error    service.sites().list() raises HttpError                *)
(*   fail_current   the query of the current window raises HttpError       *)
(*   fail_previous  the query of the previous window raises HttpError      *)
(* A run that raises (KeyError in pd.merge, ValueError in px.scatter) ends *)
(* there: what it stored in the session before stays, what comes after,    *)
(* the sidebar with Logout included, is not rendered.                      *)
(***************************************************************************)
RunMain(click, sites_error, fail_current, fail_previous) ==
    /\ authenticated
    /\ click \in {"none", "analyze", "logout"}
    /\ rerun => click = "none"
    /\ click # "none" => click \in rendered
    /\ LET loaded == load_credentials
           fetch_sites == ~credentials_missing(loaded) /\ sites_fetch_needed(sites)
           sites1 == IF fetch_sites THEN get_sites(gsc_sites, sites_error) ELSE sites
           cur == fetch_search_analytics(gsc_current, fail_current)
           prev == fetch_search_analytics(gsc_previous, fail_previous)
           path == IF credentials_missing(loaded) THEN "no_credentials"
                   ELSE IF sites1 = <<>> THEN "no_sites"
                   ELSE IF click = "analyze"
                        THEN IF no_data(cur, prev) THEN "no_data"
                             ELSE IF ~has_url_column(cur) \/ ~has_url_column(prev)
                                  THEN "KeyError"
                                  ELSE "report"
                   ELSE IF click = "logout" THEN "logout"
                   ELSE "page"
           analysed == path \in {"no_data", "KeyError", "report"}
       IN  /\ authenticated' = (path \notin {"no_credentials", "logout"})
           /\ credentials' = IF path = "logout" THEN None ELSE credentials
           /\ token_json' = IF path = "logout" THEN None ELSE token_json
           /\ sites' = IF path = "no_credentials" THEN sites ELSE sites1
           /\ current_df' = IF analysed THEN cur ELSE EmptyDataFrame
           /\ previous_df' = IF analysed THEN prev ELSE EmptyDataFrame
           /\ date_ranges' = IF path \in {"no_credentials", "no_sites"} THEN None
                             ELSE Some(calculate_date_ranges(today))
           /\ IF path = "report"
              THEN /\ merged_df' = Some(merge(cur, prev))
                   /\ decay_df' \in {Some(d) : d \in sort_values(decay_filter(merge(cur, prev)))}
              ELSE UNCHANGED <<decay_df, merged_df>>
           /\ rerun' = (path = "logout")
           /\ rendered' =
                 IF path \in {"no_credentials", "no_sites"} THEN {}
                 ELSE IF path \in {"no_data", "KeyError"} THEN {"selectbox", "analyze"}
                 ELSE IF path = "report" /\ Len(decay_df'[1]) > 0
                 THEN {"selectbox", "analyze", "download"}
                      \cup (IF scatter_raises(decay_df'[1]) THEN {} ELSE {"logout"})
                 ELSE {"selectbox", "analyze", "logout"}
           /\ run' = [entry_authenticated |-> TRUE,
                      credentials_loaded |-> loaded # None,
                      click |-> click,
                      api_calls |->
                          (IF fetch_sites THEN {"sites"} ELSE {})
                          \cup (IF analysed THEN {"current", "previous"} ELSE {}),
                      http_errors |->
                          (IF fetch_sites /\ sites_error THEN {"sites"} ELSE {})
                          \cup (IF analysed /\ fail_current THEN {"current"} ELSE {})
                          \cup (IF analysed /\ fail_previous THEN {"previous"} ELSE {}),
                      alerts |->
                          (IF load_credentials_error THEN {"error: loading credentials"} ELSE {})
                          \cup (IF path = "no_credentials"
                                THEN {"error: no valid credentials"} ELSE {})
                          \cup (IF fetch_sites /\ sites_error
                                THEN {"error: fetching sites"} ELSE {})
                          \cup (IF path = "no_sites" THEN {"warning: no verified sites"} ELSE {})
                          \cup (IF analysed /\ (fail_current \/ fail_previous)
                                THEN {"error: fetching search analytics"} ELSE {})
                          \cup (IF path = "no_data" THEN {"error: no data available"} ELSE {})
                          \cup (IF path = "report" /\ Len(decay_df'[1]) = 0
                                THEN {"success: no decay found"} ELSE {}),
                      outcome |->
                          IF path = "report"
                          THEN IF Len(decay_df'[1]) > 0 THEN "decay_table" ELSE "no_decay"
                          ELSE path,
                      raised |->
                          IF path = "KeyError" THEN "KeyError"
                          ELSE IF path = "report" /\ Len(decay_df'[1]) > 0
                                  /\ scatter_raises(decay_df'[1])
                          THEN "ValueError"
                          ELSE "none"]
    /\ UNCHANGED <<oauth_flow, environment>>

(***************************************************************************)
(* The environment between two runs.                                       *)
(***************************************************************************)
\* Time passes: the access token expires, in the session and in token.json.
CredentialsExpire ==
    /\ \/ credentials # None /\ ~credentials[1].expired
       \/ token_json # None /\ ~token_json[1].expired
    /\ credentials' = IF credentials = None THEN None
                      ELSE Some([credentials[1] EXCEPT !.expired = TRUE])
    /\ token_json' = IF token_json = None THEN None
                     ELSE Some([token_json[1] EXCEPT !.expired = TRUE])
    /\ UNCHANGED <<authenticated, sites, oauth_flow, decay_df, merged_df, environment,
                   rerun, rendered, current_df, previous_df, date_ranges, run>>

\* The user deletes token.json from the working directory.
TokenFileRemoved ==
    /\ token_json # None
    /\ token_json' = None
    /\ UNCHANGED <<session, environment, rerun, rendered, current_df, previous_df,
                   date_ranges, run>>

\* The account's verified sites change in Search Console.
SitesChange ==
    /\ gsc_sites' \in SiteEntries \ {gsc_sites}
    /\ UNCHANGED <<session, token_json, client_secrets, gsc_current, gsc_previous, today,
                   rerun, rendered, current_df, previous_df, date_ranges, run>>

(***************************************************************************)
(* Specifications.                                                         *)
(***************************************************************************)
InitSessionState ==
    /\ credentials = None
    /\ authenticated = FALSE
    /\ sites = <<>>
    /\ oauth_flow = FALSE
    /\ decay_df = None
    /\ merged_df = None

InitRun ==
    /\ rerun = FALSE
    /\ rendered = {}
    /\ current_df = EmptyDataFrame
    /\ previous_df = EmptyDataFrame
    /\ date_ranges = None
    /\ run = NoRun

\* Spec: the script from its first load, over any sequence of runs.
Init ==
    /\ InitSessionState
    /\ InitRun
    /\ token_json \in {None} \cup {Some(f) : f \in TokenFile}
    /\ client_secrets \in BOOLEAN
    /\ gsc_sites \in SiteEntries
    /\ gsc_current \in {NoRows, <<[keys |-> <<"/a">>, clicks |-> 0, position |-> 1]>>}
    /\ gsc_previous \in {NoRows, <<[keys |-> <<"/a">>, clicks |-> ClickUnit, position |-> 1]>>}
    /\ today = FirstDay

Next ==
    \/ \E redirect \in {"", "url"}, refresh_ok, token_ok, new_refresh \in BOOLEAN :
          RunLogin(redirect, refresh_ok, token_ok, new_refresh)
    \/ \E click \in {"none", "analyze", "logout"},
          sites_error, fail_current, fail_previous \in BOOLEAN :
          RunMain(click, sites_error, fail_current, fail_previous)
    \/ CredentialsExpire
    \/ TokenFileRemoved
    \/ SitesChange

Spec == Init /\ [][Next]_vars

\* SpecAudit: a signed-in session on its page, over every pair of windows'
\* data; its step is the run with "Analyze Content Decay" pressed.
InitAudit ==
    /\ credentials = Some([expired |-> FALSE, refresh_token |-> TRUE])
    /\ token_json = Some(to_json(credentials[1]))
    /\ authenticated = TRUE
    /\ sites = <<"sc-domain:a.com">>
    /\ oauth_flow = TRUE
    /\ decay_df = None
    /\ merged_df = None
    /\ client_secrets = TRUE
    /\ gsc_sites = <<[siteUrl |-> "sc-domain:a.com", permissionLevel |-> "siteOwner"]>>
    /\ \E p \in (Responses \X Responses) \cup HalfwayPairs :
          gsc_current = p[1] /\ gsc_previous = p[2]
    /\ today = FirstDay
    /\ rerun = FALSE
    /\ rendered = {"selectbox", "analyze", "logout"}
    /\ current_df = EmptyDataFrame
    /\ previous_df = EmptyDataFrame
    /\ date_ranges = Some(calculate_date_ranges(today))
    /\ run = [NoRun EXCEPT !.entry_authenticated = TRUE, !.credentials_loaded = TRUE,
                           !.outcome = "page"]

NextAudit ==
    /\ run.outcome = "page"
    /\ \E fail_current, fail_previous \in BOOLEAN :
          RunMain("analyze", FALSE, fail_current, fail_previous)

SpecAudit == InitAudit /\ [][NextAudit]_vars

\* SpecDates: the signed-in page loaded on any day of the span.
InitDates ==
    /\ credentials = Some([expired |-> FALSE, refresh_token |-> TRUE])
    /\ token_json = Some(to_json(credentials[1]))
    /\ authenticated = TRUE
    /\ sites = <<"sc-domain:a.com">>
    /\ oauth_flow = TRUE
    /\ decay_df = None
    /\ merged_df = None
    /\ client_secrets = TRUE
    /\ gsc_sites = <<[siteUrl |-> "sc-domain:a.com", permissionLevel |-> "siteOwner"]>>
    /\ gsc_current = NoRows
    /\ gsc_previous = NoRows
    /\ today \in FirstDay..(FirstDay + DaySpan)
    /\ InitRun

NextDates == RunMain("none", FALSE, FALSE, FALSE)

SpecDates == InitDates /\ [][NextDates]_vars


(***************************************************************************)
(* Properties.                                                             *)
(***************************************************************************)
\* The last run pressed "Analyze Content Decay" and reached the analysis.
Analysed == run.click = "analyze" /\ run.api_calls = {"current", "previous"}
\* The last run computed the analysis and stored its two frames.
Reported == run.outcome \in {"decay_table", "no_decay"}
\* The joined records the last run produced (none when it produced no join).
Joined == IF Reported THEN merged_df[1] ELSE <<>>
\* The decay report the last run produced.
Report == IF Reported THEN decay_df[1] ELSE <<>>
records_of(df, u) == {i \in 1..Len(df) : df[i].url = u}

\* C1 (join coverage): after an analysis of two metric sets fetched without
\* error, either possibly empty, the joined records hold every URL of the
\* current or the previous set exactly once, and no other URL.
C1_JoinCoverage ==
    (Analysed /\ run.http_errors = {}) =>
        /\ urls_of(Joined) = urls_of(current_df) \cup urls_of(previous_df)
        /\ \A u \in urls_of(Joined) : Cardinality(records_of(Joined, u)) = 1

\* C2 as claimed (zero-baseline policy): every joined record whose previous
\* clicks are 0 has a click percentage change of exactly 0.
C2_ZeroBaselineIsZero ==
    Reported =>
        \A r \in Range(Joined) : r.clicks_previous = 0 => r.clicks_change_pct = 0

\* C2 as amended: every joined record whose previous clicks are 0 has a click
\* percentage change of clicks_current * 100 (the zero baseline is replaced
\* by 1), which is 0 only when the current clicks are 0 as well.
C2_ZeroBaselineReplacedByOne ==
    Reported =>
        \A r \in Range(Joined) :
            r.clicks_previous = 0 => r.clicks_change_pct = r.clicks_current * 100 * 100

C2_Witness ==
    /\ Reported
    /\ \E r \in Range(Joined) : r.clicks_previous = 0 /\ r.clicks_current > 0

\* C3 as claimed (filter correctness), with the claim's min_click_loss = 25
\* and the code's 20 percent: every record of the decay report has
\* clicks_change <= -25, clicks_change_pct <= -20 and clicks_previous > 0.
C3_FilterBothThresholds ==
    Reported =>
        \A r \in Range(Report) :
            /\ r.clicks_change <= -25
            /\ r.clicks_change_pct <= -2000
            /\ r.clicks_previous > 0

\* C3 as amended: the decay report holds exactly the joined records with
\* clicks_change_pct <= -20 and clicks_previous > 0 (so clicks_change < 0);
\* no click-loss threshold applies.
C3_FilterPercentOnly ==
    Reported =>
        /\ \A r \in Range(Report) :
              r.clicks_change_pct <= -2000 /\ r.clicks_previous > 0 /\ r.clicks_change < 0
        /\ Range(Report) =
              {r \in Range(Joined) : r.clicks_change_pct <= -2000 /\ r.clicks_previous > 0}

C3_Witness ==
    /\ Reported
    /\ \E r \in Range(Report) : r.clicks_change = -20 /\ r.clicks_change_pct = -5000
    /\ \E r \in Range(Joined) : r \notin Range(Report)

\* Ten times the spec's decay_score = abs(click_delta) * 0.7 + position_delta * 0.3.
decay_score_x10(r) ==
    7 * (IF r.clicks_change < 0 THEN -r.clicks_change ELSE r.clicks_change)
    + 3 * (r.position_current - r.position_previous)

\* The rows of df differ pairwise in clicks_change_pct: sort_values leaves one
\* possible order.
distinct_pct(df) ==
    \A i, j \in 1..Len(df) : i # j => df[i].clicks_change_pct # df[j].clicks_change_pct

\* C4 as claimed (report ordering): the decay report is ordered by decay_score
\* descending, and among equal scores the more negative clicks_change first.
\* Stated for the reports whose order the code determines (no two records
\* with the same clicks_change_pct).
C4_OrderedByDecayScore ==
    (Reported /\ distinct_pct(Report)) =>
        \A i, j \in 1..Len(Report) :
            i < j =>
                \/ decay_score_x10(Report[i]) > decay_score_x10(Report[j])
                \/ /\ decay_score_x10(Report[i]) = decay_score_x10(Report[j])
                   /\ Report[i].clicks_change <= Report[j].clicks_change

\* C4 as amended: the decay report is ordered by clicks_change_pct ascending
\* (the largest percentage decline first).
C4_OrderedByPercentChange ==
    Reported =>
        \A i, j \in 1..Len(Report) :
            i < j => Report[i].clicks_change_pct <= Report[j].clicks_change_pct

C4_Witness ==
    /\ Reported
    /\ Len(Report) = 2
    /\ Report[1].clicks_change_pct < Report[2].clicks_change_pct
    /\ Report[1].url = "/b"

\* C5 (fetch failure): when a metric fetch raised HttpError, the run shows the
\* fetch error and produces no decay report: nothing is stored and no table or
\* "no decay" message is shown.
C5_FetchFailureNoReport ==
    (Analysed /\ run.http_errors # {}) =>
        /\ "error: fetching search analytics" \in run.alerts
        /\ ~Reported
        /\ decay_df = None
        /\ merged_df = None

C5_Witness ==
    /\ Analysed
    /\ run.http_errors = {"current"}
    /\ ~empty(previous_df)
    /\ run.outcome = "KeyError"

\* C6 (vanished page): after an analysis of two sets fetched without error,
\* every URL of the previous set with clicks > 0 that the current set lacks
\* (the current set may be empty) has exactly one joined record, with
\* clicks_current = 0 and clicks_change_pct = -100, and that record is in the
\* decay report.
C6_VanishedPageFlagged ==
    (Analysed /\ run.http_errors = {}) =>
        \A u \in urls_of(previous_df) \ urls_of(current_df) :
            row_of(previous_df, u).clicks > 0 =>
                /\ Cardinality(records_of(Joined, u)) = 1
                /\ \A i \in records_of(Joined, u) :
                      /\ Joined[i].clicks_current = 0
                      /\ Joined[i].clicks_change_pct = -10000
                      /\ Joined[i] \in Range(Report)

\* C7 as claimed (empty inputs): when both sets are empty the analysis ends
\* with a valid empty report and no error.
C7_EmptyInputsGiveEmptyReport ==
    (Analysed /\ run.http_errors = {} /\ empty(current_df) /\ empty(previous_df)) =>
        /\ Reported
        /\ Report = <<>>
        /\ \A a \in run.alerts : a # "error: no data available"

\* C7 as amended: when both sets are empty the run ends with the error "No
\* data available for the selected periods." and produces no report; the
\* informational "no decay" state is reached only from a join that has
\* records, none of which passes the filter.
C7_EmptyInputsGiveNoDataError ==
    /\ (Analysed /\ empty(current_df) /\ empty(previous_df)) =>
          /\ run.outcome = "no_data"
          /\ "error: no data available" \in run.alerts
          /\ decay_df = None
          /\ merged_df = None
    /\ run.outcome = "no_decay" =>
          /\ Len(merged_df[1]) > 0
          /\ decay_df[1] = <<>>
          /\ "success: no decay found" \in run.alerts

C7_Witness ==
    /\ Analysed
    /\ run.http_errors = {}
    /\ empty(current_df)
    /\ empty(previous_df)
    /\ run.outcome = "no_data"

\* C8 (date windows): the current window ends at today - 1 and starts 90 - 1
\* days before its end; the previous window is the current one shifted back
\* by 365 days; both hold 90 days and they do not overlap.
C8_DateWindows ==
    date_ranges # None =>
        LET d == date_ranges[1]
        IN  /\ d.current.end = today - 1
            /\ d.current.start = d.current.end - (90 - 1)
            /\ d.previous.end = d.current.end - 365
            /\ d.previous.start = d.current.start - 365
            /\ d.current.end - d.current.start + 1 = 90
            /\ d.previous.end - d.previous.start + 1 = 90
            /\ d.previous.end < d.current.start

C8_Witness == date_ranges # None /\ today > FirstDay

\* A step that is a run of the script (the environment's steps leave these).
RunStep == run' # run \/ <<sites, decay_df, merged_df>>' # <<sites, decay_df, merged_df>>

\* C9 (authentication gate): a run that fetches the site list or the metrics
\* was entered with authenticated True and loaded a credential; a run entered
\* with authenticated False makes no API fetch, whatever authenticate() did.
C9_AuthenticationGate ==
    [][RunStep =>
         /\ run'.api_calls # {} => (authenticated /\ load_credentials # None)
         /\ ~authenticated => run'.api_calls = {}
         /\ run'.entry_authenticated = authenticated]_vars

C9_Witness ==
    /\ oauth_flow
    /\ run.entry_authenticated
    /\ run.api_calls = {"sites"}
    /\ sites # <<>>

\* C10 (logout): the run with Logout pressed sets authenticated to False and
\* credentials to None, removes token.json, and leaves the rest of the session
\* state as it was; and no run changes a site list that is not empty.
C10_LogoutEffect ==
    [][/\ (run'.click = "logout" /\ run' # run) =>
             /\ authenticated' = FALSE
             /\ credentials' = None
             /\ token_json' = None
             /\ UNCHANGED <<sites, oauth_flow, decay_df, merged_df>>
       /\ sites # <<>> => sites' = sites]_vars

C10_Witness ==
    /\ run.outcome = "oauth_success"
    /\ sites # <<>>
    /\ decay_df # None

====
